---- MODULE Spec2Model ----
(***************************************************************************)
(* pow_sha256: proof of work over a typed piece of data.                   *)
(*                                                                         *)
(* The model covers the four public operations of the crate: Pow::score,   *)
(* Pow::prove_work and the two numeric helpers `difficulty` and `average`  *)
(* of the crate documentation (src/src/lib.rs).  A client calls one        *)
(* operation from the initial state (the crate keeps no state between      *)
(* calls), and may then feed the result to the next operation: score the   *)
(* proof prove_work returned, convert a helper's result back.  prove_work  *)
(* runs one loop iteration per step.                                       *)
(*                                                                         *)
(* Widths are scaled: a byte has ByteBits bits instead of 8, a score is    *)
(* ScoreLen bytes instead of 16 (so u128 becomes an unsigned integer of    *)
(* ByteBits*ScoreLen bits, with the same wrap-around and the same panics), *)
(* a digest is 2*ScoreLen bytes instead of 32 and a proof payload is       *)
(* PayloadLen bytes.                                                       *)
(***************************************************************************)
EXTENDS Integers, Sequences, FiniteSets, TLC

\* ---------------------------------------------------------------- bounds
ByteBits == 3
ScoreLen == 2
PayloadLen == 1

Radix == 2^ByteBits
DigestLen == 2 * ScoreLen
\* the number of values of the score type (2^128 in the crate)
U128Modulus == Radix^ScoreLen
\* u128::max_value()
U128Max == U128Modulus - 1
\* the largest payload a proof can carry
PayloadMax == Radix^PayloadLen - 1

VARIABLES
    debug,      \* build profile: TRUE when debug assertions / overflow checks are on
    pc,         \* "idle", "proving" (inside the loop of prove_work) or "done"
    target,     \* the target of the running / last prove_work or score call
    threshold,  \* the difficulty of the running / last prove_work call
    n,          \* the payload of the candidate proof
    attempts,   \* how many times the running prove_work call has scored a candidate
    tried,      \* the payloads the running prove_work call has scored
    rejects,    \* the payloads whose proof the serializer cannot encode
    ret,        \* what the last prove_work call returned
    won,        \* the score the loop of prove_work computed for the proof it returned
    sres,       \* what the last score call returned
    num,        \* the last call of a numeric helper: operation, argument, outcome
    prev        \* the helper call whose result was the argument of `num`

vars == <<debug, pc, target, threshold, n, attempts, tried, rejects, ret, won, sres, num, prev>>

\* ---------------------------------------------------------------- results
Ok(v) == [kind |-> "ok", val |-> v]
Err(e) == [kind |-> "err", why |-> e]
Panic(e) == [kind |-> "panic", why |-> e]
None == [kind |-> "none"]
NoCall == [op |-> "none", arg |-> 0, out |-> None]

\* ---------------------------------------------------------------- u128 arithmetic
\* mutant: the operands of the subtraction are exchanged
USub_swapped(a, b) ==
    IF a <= b THEN Ok(b - a)
    ELSE IF debug THEN Panic("attempt to subtract with overflow")
    ELSE Ok((b - a) % U128Modulus)

\* a - b on the unsigned score type: overflow checks panic in a debug build,
\* a release build wraps around
USub(a, b) ==
    IF b <= a THEN Ok(a - b)
    ELSE IF debug THEN Panic("attempt to subtract with overflow")
    ELSE Ok((a - b) % U128Modulus)

\* mutant: the quotient is rounded up
UDiv_ceil(a, b) ==
    IF b = 0 THEN Panic("attempt to divide by zero")
    ELSE Ok((a + b - 1) \div b)

\* a / b on the unsigned score type: division by zero panics in every build
UDiv(a, b) ==
    IF b = 0 THEN Panic("attempt to divide by zero")
    ELSE Ok(a \div b)

\* ---------------------------------------------------------------- numeric helpers
\* mutant: an average of zero is not rejected, its quotient counts as zero
difficulty_unguarded(avg) ==
    LET m == U128Max
    IN IF avg = 0 THEN Ok(m) ELSE USub(m, m \div avg)

difficulty(avg) ==
    IF debug /\ avg = 0
    THEN Panic("It is impossible to prove work in zero attempts.")
    ELSE LET m == U128Max
             q == UDiv(m, avg)
         IN IF q.kind # "ok" THEN q ELSE USub(m, q.val)

\* mutant: no special case for the largest difficulty
average_nospecial(diff) ==
    LET m == U128Max
        x == USub(m, diff)
    IN IF x.kind # "ok" THEN x ELSE UDiv(m, x.val)

\* mutant: the largest difficulty collapses to an average of zero
average_collapse(diff) ==
    LET m == U128Max
    IN IF diff = m THEN Ok(0) ELSE UDiv(m, m - diff)

average(diff) ==
    LET m == U128Max
    IN IF diff = m THEN Ok(m)
       ELSE LET x == USub(m, diff)
            IN IF x.kind # "ok" THEN x ELSE UDiv(m, x.val)

\* ---------------------------------------------------------------- serialization
\* an integer as `len` bytes, most significant byte first (network byte order)
RECURSIVE to_be_bytes(_, _)
to_be_bytes(v, len) ==
    IF len = 0 THEN <<>>
    ELSE Append(to_be_bytes(v \div Radix, len - 1), v % Radix)

\* bytes read as an unsigned integer, most significant byte first
RECURSIVE deserialize(_)
deserialize(bytes) ==
    IF bytes = <<>> THEN 0
    ELSE deserialize(SubSeq(bytes, 1, Len(bytes) - 1)) * Radix + bytes[Len(bytes)]

\* a byte string is its length followed by its bytes
serialize_bytes(b) == to_be_bytes(Len(b), 1) \o b

\* the salt that prefixes every scored message
SALT == <<1, 3, 0, 2, 1, 1>>

\* the targets a caller supplies: byte strings, and one value of a shape the
\* serializer does not support
Targets ==
    { [shape |-> "bytes", bytes |-> b] : b \in {<<>>, <<1>>, <<2>>, <<7>>, <<3, 2>>} }
    \cup { [shape |-> "unsupported", bytes |-> <<>>] }

\* the target of no call
NoTarget == [shape |-> "bytes", bytes |-> <<>>]

serialize(t) ==
    IF t.shape = "bytes" THEN Ok(serialize_bytes(t.bytes))
    ELSE Err("serialization")

\* a proof is its payload, a fixed-width integer
serialize_pow(p) ==
    IF p \in rejects THEN Err("serialization")
    ELSE Ok(to_be_bytes(p, PayloadLen))

\* ---------------------------------------------------------------- hash
\* Stand-in for SHA-256: a digest of DigestLen bytes that depends on every
\* byte of the message and on their order.  The message is padded with its
\* length, as SHA-256 does, and absorbed byte by byte.
RECURSIVE absorb(_, _)
absorb(h, bytes) ==
    IF bytes = <<>> THEN h
    ELSE absorb(((h + Head(bytes) + 1) * 45 + (h \div Radix^ScoreLen)) % (Radix^DigestLen),
                Tail(bytes))

sha256(bytes) ==
    to_be_bytes(absorb(0, bytes \o to_be_bytes(Len(bytes), DigestLen)), DigestLen)

\* ---------------------------------------------------------------- score
\* mutant: the target is hashed before the salt
score_swapped(t, p) ==
    LET st == serialize(t)
        sp == serialize_pow(p)
    IN IF st.kind # "ok" THEN st
       ELSE IF sp.kind # "ok" THEN sp
       ELSE LET bytes == st.val \o serialize_bytes(SALT) \o sp.val
                hash == sha256(bytes)
            IN Ok(deserialize(SubSeq(hash, 1, ScoreLen)))

\* mutant: a value that cannot be serialized scores as the empty message
score_defaulted(t, p) ==
    LET st == serialize(t)
        sp == serialize_pow(p)
        tb == IF st.kind = "ok" THEN st.val ELSE <<>>
        pb == IF sp.kind = "ok" THEN sp.val ELSE <<>>
    IN Ok(deserialize(SubSeq(sha256(serialize_bytes(SALT) \o tb \o pb), 1, ScoreLen)))

score(t, p) ==
    LET st == serialize(t)
        sp == serialize_pow(p)
    IN IF st.kind # "ok" THEN st
       ELSE IF sp.kind # "ok" THEN sp
       ELSE LET bytes == serialize_bytes(SALT) \o st.val \o sp.val
                hash == sha256(bytes)
            IN Ok(deserialize(SubSeq(hash, 1, ScoreLen)))

\* mutant: a score one below the minimum is accepted
Satisfies_lenient(s, m) == s + 1 >= m

\* mutant: a score equal to the minimum is refused
Satisfies_strict(s, m) == s > m

\* a proof satisfies the minimum score m iff its score is at least m
Satisfies(s, m) == s >= m

\* ---------------------------------------------------------------- prove_work
\* the payload of the first candidate
InitialPayload == 0

\* what the serializer may be unable to encode among the proofs: nothing, the
\* first candidate, or a later one
RejectChoices == {{}, {InitialPayload}, {2}}

\* mutant: the payload wraps around to the first candidate
next_candidate_wrapping(p) == Ok((p + 1) % (PayloadMax + 1))

\* the candidate after p, or the end of the payload space
next_candidate(p) ==
    IF p = PayloadMax THEN Err("search exhausted") ELSE Ok(p + 1)

\* ---------------------------------------------------------------- state machine
Init ==
    /\ debug \in BOOLEAN
    /\ rejects \in RejectChoices
    /\ pc = "idle"
    /\ target = NoTarget
    /\ threshold = 0
    /\ n = InitialPayload
    /\ attempts = 0
    /\ tried = {}
    /\ ret = None
    /\ won = None
    /\ sres = None
    /\ num = NoCall
    /\ prev = NoCall

\* a call of a numeric helper leaves no proof behind
ResetProof ==
    /\ target' = NoTarget
    /\ threshold' = 0
    /\ n' = InitialPayload
    /\ attempts' = 0
    /\ tried' = {}
    /\ ret' = None
    /\ won' = None
    /\ sres' = None

\* the arguments a helper is called with: any value at first, then the
\* result of the helper call before
HelperArgs ==
    IF pc = "idle" THEN 0..U128Max
    ELSE IF num.out.kind = "ok" THEN {num.out.val}
    ELSE {}

\* difficulty(a); `prev` remembers the call that produced a
CallDifficulty ==
    /\ pc \in {"idle", "done"}
    /\ \E a \in HelperArgs :
        num' = [op |-> "difficulty", arg |-> a, out |-> difficulty(a)]
    /\ prev' = num
    /\ pc' = "done"
    /\ ResetProof
    /\ UNCHANGED <<debug, rejects>>

\* average(d); `prev` remembers the call that produced d
CallAverage ==
    /\ pc \in {"idle", "done"}
    /\ \E d \in HelperArgs :
        num' = [op |-> "average", arg |-> d, out |-> average(d)]
    /\ prev' = num
    /\ pc' = "done"
    /\ ResetProof
    /\ UNCHANGED <<debug, rejects>>

\* Pow::prove_work(t, d) is entered: the first candidate is set up
CallProveWork ==
    /\ pc = "idle"
    /\ \E t \in Targets, d \in 0..U128Max :
        /\ target' = t
        /\ threshold' = d
    /\ n' = InitialPayload
    /\ attempts' = 0
    /\ tried' = {}
    /\ ret' = None
    /\ won' = None
    /\ sres' = None
    /\ pc' = "proving"
    /\ UNCHANGED <<debug, rejects, num, prev>>

\* one iteration of the loop of prove_work: score the candidate, then return
\* it, return an error, or advance
ProveStep ==
    /\ pc = "proving"
    /\ attempts' = attempts + 1
    /\ LET s == score(target, n)
       IN IF s.kind # "ok"
          THEN /\ ret' = s
               /\ pc' = "done"
               /\ UNCHANGED <<n, tried, won>>
          ELSE /\ tried' = tried \cup {n}
               /\ IF Satisfies(s.val, threshold)
                  THEN /\ ret' = Ok(n)
                       /\ won' = s
                       /\ pc' = "done"
                       /\ n' = n
                  ELSE LET c == next_candidate(n)
                       IN IF c.kind # "ok"
                          THEN /\ ret' = c
                               /\ pc' = "done"
                               /\ UNCHANGED <<n, won>>
                          ELSE /\ n' = c.val
                               /\ UNCHANGED <<ret, won, pc>>
    /\ UNCHANGED <<debug, rejects, target, threshold, sres, num, prev>>

\* pw.score(&t) for any target and any proof
CallScore ==
    /\ pc = "idle"
    /\ \E t \in Targets, p \in 0..PayloadMax :
        /\ target' = t
        /\ n' = p
        /\ sres' = score(t, p)
    /\ pc' = "done"
    /\ UNCHANGED <<debug, rejects, threshold, attempts, tried, ret, won, num, prev>>

\* the caller checks the proof prove_work returned: pw.score(&target)
Verify ==
    /\ pc = "done"
    /\ ret.kind = "ok"
    /\ sres = None
    /\ sres' = score(target, ret.val)
    /\ UNCHANGED <<debug, rejects, pc, target, threshold, n, attempts, tried, ret, won, num, prev>>

Next ==
    \/ CallDifficulty
    \/ CallAverage
    \/ CallProveWork
    \/ ProveStep
    \/ CallScore
    \/ Verify

Spec == Init /\ [][Next]_vars

\* ================================================================ properties

\* a prove_work call has scored at least one candidate
Proving == attempts >= 1

\* the target and the proof of the last call can be serialized
TargetOk == target.shape = "bytes"

\* C1: whenever prove_work(T, D) returned a proof P, the independent call
\* score(T, P) succeeds with a value of at least D.
C1_ThresholdCorrectness ==
    (ret.kind = "ok" /\ sres.kind # "none") =>
        /\ sres.kind = "ok"
        /\ sres.val >= threshold

C1_Witness ==
    /\ ret.kind = "ok"
    /\ sres.kind = "ok"
    /\ attempts >= 3
    /\ threshold > U128Max \div 2

\* the first ScoreLen bytes of a digest, most significant byte first
RECURSIVE BigEndian(_, _)
BigEndian(hash, i) ==
    IF i > ScoreLen THEN 0
    ELSE hash[i] * Radix^(ScoreLen - i) + BigEndian(hash, i + 1)

\* C2: a score is the first ScoreLen bytes of the digest of
\* serialize(SALT) ++ serialize(target) ++ serialize(proof), in that order,
\* read as a big-endian unsigned integer; it depends on nothing else, so the
\* score the caller computes for a returned proof is the score the loop found.
C2_ScoreScheme ==
    /\ sres.kind = "ok" =>
        /\ sres.val = BigEndian(sha256(serialize_bytes(SALT)
                                        \o serialize_bytes(target.bytes)
                                        \o to_be_bytes(n, PayloadLen)), 1)
        /\ sres.val \in 0..U128Max
    /\ (ret.kind = "ok" /\ sres.kind # "none") => sres = won

C2_Witness ==
    /\ ret.kind = "ok"
    /\ sres.kind = "ok"
    /\ sres = won
    /\ sres.val > Radix
    /\ sres.val % Radix # 0
    /\ Len(target.bytes) = 2

\* C3: difficulty(average) is max - max/average for every average >= 1, with no
\* underflow in any build, and a call with average = 0 fails in every build.
C3_DifficultyFromAverage ==
    num.op = "difficulty" =>
        IF num.arg = 0
        THEN num.out.kind = "panic"
        ELSE /\ U128Max \div num.arg <= U128Max
             /\ num.out = Ok(U128Max - (U128Max \div num.arg))

C3_Witness ==
    /\ num.op = "difficulty"
    /\ num.arg = 0
    /\ ~debug
    /\ num.out.kind = "panic"

\* C4: average(difficulty) is max when difficulty = max and
\* max/(max - difficulty) otherwise; it never panics (no division by zero, no
\* underflow) in any build.
C4_AverageFromDifficulty ==
    num.op = "average" =>
        IF num.arg = U128Max
        THEN num.out = Ok(U128Max)
        ELSE /\ U128Max - num.arg >= 1
             /\ num.out = Ok(U128Max \div (U128Max - num.arg))

C4_Witness ==
    /\ num.op = "average"
    /\ num.arg = U128Max
    /\ num.out = Ok(U128Max)

\* the state after difficulty(average(D)): D is prev.arg, the result is num.out
RoundTrip ==
    /\ prev.op = "average"
    /\ num.op = "difficulty"

Sample == {0, U128Max \div 2, U128Max}

\* C5 as stated: for D in the sample {0, max/2, max}, difficulty(average(D))
\* differs from D by at most 1.
C5_RoundTripWithinOne ==
    (RoundTrip /\ prev.arg \in Sample) =>
        /\ num.out.kind = "ok"
        /\ prev.arg - num.out.val <= 1
        /\ num.out.val - prev.arg <= 1

\* C5 amended: for D in the sample {0, max/2, max}, difficulty(average(D)) is
\* defined and at most D; it is D for D = 0, max - 1 for D = max, and 0 for
\* D = max/2 (whose average rounds down to 1).
C5_RoundTripSample ==
    (RoundTrip /\ prev.arg \in Sample) =>
        /\ num.out.kind = "ok"
        /\ num.out.val <= prev.arg
        /\ prev.arg = 0 => num.out.val = 0
        /\ prev.arg = U128Max => num.out.val = U128Max - 1
        /\ prev.arg = U128Max \div 2 => num.out.val = 0

C5_Witness ==
    /\ RoundTrip
    /\ prev.arg = U128Max \div 2
    /\ num.out = Ok(0)

\* C6: with difficulty 0, prove_work on a serializable target scores the
\* initial candidate exactly once, accepts it and returns it; the payload is
\* never advanced.
C6_DifficultyZero ==
    (Proving /\ threshold = 0 /\ TargetOk /\ InitialPayload \notin rejects) =>
        /\ pc = "done"
        /\ ret = Ok(InitialPayload)
        /\ attempts = 1
        /\ tried = {InitialPayload}
        /\ n = InitialPayload

C6_Witness ==
    /\ Proving
    /\ threshold = 0
    /\ ret = Ok(InitialPayload)
    /\ won = Ok(0)
    /\ attempts = 1

\* C7: a serialization failure of the target or of a candidate makes score
\* and prove_work return the serialization error at once: the loop stops at
\* the failing candidate, which is the last one scored, and neither a proof
\* nor a score is returned.
C7_SerializationFailure ==
    /\ sres.kind # "none" =>
        IF TargetOk /\ n \notin rejects
        THEN sres.kind = "ok"
        ELSE sres = Err("serialization")
    /\ (Proving /\ pc = "proving") =>
        /\ TargetOk
        /\ \A r \in rejects : n <= r
    /\ (Proving /\ pc = "done") =>
        IF TargetOk /\ n \notin rejects
        THEN ret # Err("serialization")
        ELSE /\ ret = Err("serialization")
             /\ won = None
             /\ tried = {p \in InitialPayload..PayloadMax : p < n}
             /\ attempts = Cardinality(tried) + 1
             /\ ~TargetOk => n = InitialPayload

C7_Witness ==
    /\ Proving
    /\ pc = "done"
    /\ ret = Err("serialization")
    /\ TargetOk
    /\ n = 2
    /\ attempts = 3

\* C8: prove_work scores no payload twice and so ends within PayloadMax + 1
\* attempts; it ends with the "search exhausted" error exactly when every
\* payload has been scored and none reaches the difficulty, and a proof it
\* returns has a qualifying score.
C8_SearchExhausted ==
    Proving =>
        /\ attempts <= PayloadMax + 1
        /\ tried \subseteq InitialPayload..PayloadMax
        /\ attempts \in {Cardinality(tried), Cardinality(tried) + 1}
        /\ pc = "proving" => n \notin tried
        /\ pc = "done" =>
            /\ ret.kind \in {"ok", "err"}
            /\ ret = Err("search exhausted") <=>
                /\ tried = InitialPayload..PayloadMax
                /\ \A p \in tried : score(target, p).val < threshold
            /\ ret.kind = "ok" => won.val >= threshold

C8_Witness ==
    /\ Proving
    /\ pc = "done"
    /\ ret = Err("search exhausted")
    /\ attempts = PayloadMax + 1
    /\ threshold < U128Max

\* C9: for all D1 <= D2, average(D1) <= average(D2), the special case
\* D2 = max included, and average(0) = 1.
C9_MonotonicDifficulty ==
    (num.op = "average" /\ prev.op = "none") =>
        /\ num.out.kind = "ok"
        /\ num.arg = 0 => num.out.val = 1
        /\ \A d1 \in 0..num.arg :
            /\ average(d1).kind = "ok"
            /\ average(d1).val <= num.out.val

C9_Witness ==
    /\ num.op = "average"
    /\ prev.op = "none"
    /\ num.arg = U128Max
    /\ num.out.kind = "ok"
    /\ average(U128Max - 1) = num.out

\* C10: for every D, r = difficulty(average(D)) is defined (the average is
\* never 0), r <= D, average(r) = average(D), and the round trip of r is r.
C10_RoundTripNeverRaises ==
    /\ num.op = "average" =>
        /\ num.out.kind = "ok"
        /\ num.out.val >= 1
        /\ difficulty(num.out.val).kind = "ok"
    /\ RoundTrip =>
        /\ num.out.kind = "ok"
        /\ num.out.val <= prev.arg
        /\ average(num.out.val) = prev.out
        /\ difficulty(average(num.out.val).val) = num.out

C10_Witness ==
    /\ RoundTrip
    /\ num.out.kind = "ok"
    /\ num.out.val < prev.arg
    /\ prev.out.val > 2
    /\ prev.arg < U128Max

====
